---- MODULE Spec2Model ----
(***************************************************************************)
(* PDF generation engine of pdf-studio-service: PDFGenerator.generatePDF   *)
(* (src/src/shared/pdf/generator.ts) with the utilities it drives          *)
(* (src/src/shared/pdf/utils.ts).                                          *)
(*                                                                         *)
(* One generator process serves one generatePDF call at a time (the only   *)
(* caller is the Lambda handler src/src/functions/pdf/generate.ts); the    *)
(* static FontManager.fontCache outlives a call and is carried from one    *)
(* call to the next.  The Template Store, the Field Store, the Blob Store  *)
(* and the PDF library are the environment: what they return, and whether  *)
(* they throw, is chosen nondeterministically.                             *)
(***************************************************************************)
EXTENDS Integers, Sequences, FiniteSets, TLC

(***************************************************************************)
(* Bounds of the model.                                                    *)
(***************************************************************************)
MaxCalls == 2
MaxPages == 2

VARIABLES
    pc,             \* position of the running generatePDF call
    callNo,         \* number of generatePDF calls started in this process
    request,        \* the call's request
    fields,         \* PDFFieldDefinition[] returned by getTemplateFields
    doc,            \* the call's PDFDocument: id, page count, draw log
    processedData,  \* processData's result: field id -> value
    idx,            \* fillPDFFields: index of the next field
    errors,         \* generatePDF's errors[]
    warnings,       \* generatePDF's warnings[]
    result,         \* the PDFProcessingResult returned, NoResult while running
    fontCache,      \* FontManager.fontCache (static): cache key -> PDFFont
    stored,         \* history: the rows the Field Store holds for the template
    ioLog,          \* history: the collaborator calls made by this call
    attempts,       \* history: ids of the fields fillPDFFields has entered
    threw,          \* history: ids of the fields whose rendering threw
    fatal,          \* history: the fatal condition that ended the call
    call            \* the last call of a utility function: arguments, result

\* The state of the generator.
generator == <<pc, callNo, request, fields, doc, processedData, idx, errors,
               warnings, result, fontCache, stored, ioLog, attempts, threw, fatal>>

vars == <<pc, callNo, request, fields, doc, processedData, idx, errors,
          warnings, result, fontCache, stored, ioLog, attempts, threw, fatal, call>>

(***************************************************************************)
(* JavaScript values.                                                      *)
(***************************************************************************)
Undefined == [t |-> "undefined"]
Null == [t |-> "null"]
Str(s) == [t |-> "string", s |-> s]
Num(n) == [t |-> "number", n |-> n]
Bool(b) == [t |-> "boolean", b |-> b]
Obj(m) == [t |-> "object", o |-> m]
Arr(a) == [t |-> "array", a |-> a]

\* ToBoolean: what `!v`, `v || w` and `v && w` test.
Truthy(v) ==
    CASE v.t = "undefined" -> FALSE
      [] v.t = "null" -> FALSE
      [] v.t = "string" -> v.s /= ""
      [] v.t = "number" -> "nan" \notin DOMAIN v /\ v.n /= 0
      [] v.t = "boolean" -> v.b
      [] OTHER -> TRUE

\* a || b
Or(a, b) == IF Truthy(a) THEN a ELSE b

NoField == "-"
NoResult == [kind |-> "none"]
NoDoc == [id |-> 0, pages |-> 0, ops |-> <<>>]
NoRequest == [templateId |-> Undefined, data |-> Undefined, options |-> Undefined]
NoCall == [fn |-> "none"]

\* v[key] for a key that is no inherited property: undefined unless v is an
\* object holding the key.  Also `v?.key`.
Prop(v, key) ==
    IF v.t = "object" /\ key \in DOMAIN v.o THEN v.o[key] ELSE Undefined

(***************************************************************************)
(* Errors (utils.ts: PDFGenerationError and its subclasses) and the        *)
(* ProcessingError / ProcessingWarning entries of a result.                *)
(***************************************************************************)
\* new ValidationError('Request validation failed', validationErrors):
\* the code is VALIDATION_ERROR and the details are the messages.
ValidationError(validationErrors) ==
    [class |-> "PDFGenerationError", code |-> "VALIDATION_ERROR",
     details |-> validationErrors]

TemplateNotFoundError(templateId) ==
    [class |-> "PDFGenerationError", code |-> "TEMPLATE_NOT_FOUND",
     details |-> <<>>]

\* loadBasePDF wraps whatever the Blob Store throws.
TemplateLoadError ==
    [class |-> "PDFGenerationError", code |-> "TEMPLATE_LOAD_ERROR",
     details |-> <<>>]

\* An exception of the PDF library (PDFDocument.load, save, draw calls).
LibraryError == [class |-> "Error", code |-> "", details |-> <<>>]

\* The entry the catch block of generatePDF pushes for a thrown error.
FatalEntry(error) ==
    IF error.class = "PDFGenerationError"
    THEN [code |-> error.code, field |-> NoField, severity |-> "error",
          details |-> error.details]
    ELSE [code |-> "UNKNOWN_ERROR", field |-> NoField, severity |-> "error",
          details |-> <<>>]

\* list.length > 0 ? list : undefined
OptionalList(list) == IF list = <<>> THEN Undefined ELSE Arr(list)

\* A catch block that reports the fields skipped so far.
FatalResult_KeepsCounts(errs, warns, error) ==
    [success |-> FALSE,
     pdfBuffer |-> Undefined, pdfBase64 |-> Undefined, downloadUrl |-> Undefined,
     metadata |-> [fileSize |-> 0, pageCount |-> 0,
                   fieldsProcessed |-> 0, fieldsSkipped |-> Len(errs)],
     errors |-> Arr(Append(errs, FatalEntry(error))),
     warnings |-> OptionalList(warns)]

\* The value generatePDF returns from its catch block.
FatalResult(errs, warns, error) ==
    [success |-> FALSE,
     pdfBuffer |-> Undefined, pdfBase64 |-> Undefined, downloadUrl |-> Undefined,
     metadata |-> [fileSize |-> 0, pageCount |-> 0,
                   fieldsProcessed |-> 0, fieldsSkipped |-> 0],
     errors |-> Arr(Append(errs, FatalEntry(error))),
     warnings |-> OptionalList(warns)]

(***************************************************************************)
(* validateRequest                                                         *)
(***************************************************************************)
\* typeof v === 'object' (true of null).
TypeofObject(v) == v.t \in {"object", "null"}

\* validateRequest without the check of request.data.
validateRequest_SkipsData(req) ==
    IF ~Truthy(req.templateId) THEN <<"Template ID is required">> ELSE <<>>

validateRequest(req) ==
    (IF ~Truthy(req.templateId) THEN <<"Template ID is required">> ELSE <<>>)
    \o
    (IF ~Truthy(req.data) \/ ~TypeofObject(req.data)
     THEN <<"Data object is required">> ELSE <<>>)

(***************************************************************************)
(* DataTransformer                                                         *)
(***************************************************************************)
\* The TypeError a property access on null or undefined throws.
TypeError == [t |-> "TypeError"]

\* v[key]
Member(v, key) == IF v.t \in {"null", "undefined"} THEN TypeError ELSE Prop(v, key)

\* getNestedValue with a test of the value in place of `!== undefined`.
RECURSIVE getNestedValue_TruthyOnly(_, _)
getNestedValue_TruthyOnly(obj, path) ==
    IF path = <<>> \/ obj = TypeError THEN obj
    ELSE getNestedValue_TruthyOnly(
            IF Truthy(obj) /\ Truthy(Member(obj, Head(path)))
            THEN Member(obj, Head(path)) ELSE Undefined,
            Tail(path))

\* getNestedValue(obj, path): `path` is the list path.split('.') yields.
\* reduce((current, key) => current && current[key] !== undefined
\*                          ? current[key] : undefined, obj)
\* A TypeError thrown by a step is what the call ends with.
RECURSIVE getNestedValue(_, _)
getNestedValue(obj, path) ==
    IF path = <<>> \/ obj = TypeError THEN obj
    ELSE getNestedValue(
            IF Truthy(obj) /\ Member(obj, Head(path)) /= Undefined
            THEN Member(obj, Head(path)) ELSE Undefined,
            Tail(path))

Digit(d) ==
    CASE d = 0 -> "0" [] d = 1 -> "1" [] d = 2 -> "2" [] d = 3 -> "3"
      [] d = 4 -> "4" [] d = 5 -> "5" [] d = 6 -> "6" [] d = 7 -> "7"
      [] d = 8 -> "8" [] d = 9 -> "9"

\* The decimal digits of a natural number.
RECURSIVE Digits(_)
Digits(n) == IF n < 10 THEN Digit(n) ELSE Digits(n \div 10) \o Digit(n % 10)

\* parts[0].replace(/\B(?=(\d{3})+(?!\d))/g, sep) on the digits of n.
RECURSIVE Grouped(_, _)
Grouped(n, sep) ==
    IF n < 1000 THEN Digits(n)
    ELSE Grouped(n \div 1000, sep) \o sep
         \o Digit((n \div 100) % 10) \o Digit((n \div 10) % 10) \o Digit(n % 10)

\* transformNumber(value, {decimals: 2}) of an integral value: toFixed(2),
\* then the thousands separator ',' in the integer part.
transformNumber(n) ==
    (IF n < 0 THEN "-" ELSE "")
    \o Grouped(IF n < 0 THEN -n ELSE n, ",") \o "." \o "00"

\* String(value)
String(v) ==
    CASE v.t = "string" -> v.s
      [] v.t = "number" ->
            (IF "nan" \in DOMAIN v THEN "NaN"
             ELSE (IF v.n < 0 THEN "-" ELSE "")
                  \o Digits(IF v.n < 0 THEN -v.n ELSE v.n))
      [] v.t = "boolean" -> (IF v.b THEN "true" ELSE "false")
      [] v.t = "undefined" -> "undefined"
      [] v.t = "null" -> "null"
      [] OTHER -> "[object Object]"

\* transformQRCode: QRCode.toDataURL(value): the data URI of a PNG image of
\* the QR code that encodes `text`.
QRDataUrl(text) == "data:image/png;base64,QR(" \o text \o ")"

\* The numbers Number(string) can produce in the model.
MaxNumeral == 1300

\* toFixed(2) of an integral value.
toFixed2(n) ==
    (IF n < 0 THEN "-" ELSE "") \o Digits(IF n < 0 THEN -n ELSE n) \o "." \o "00"

NaN == [t |-> "number", nan |-> TRUE]
IsNaN(v) == v.t = "number" /\ "nan" \in DOMAIN v

\* The numeric literals of the model, by the number they denote: the integers
\* and their toFixed(2) forms.
Literals == [k \in -MaxNumeral..MaxNumeral |-> {String(Num(k)), toFixed2(k)}]

\* The number a numeric literal denotes.
NumeralOf ==
    [s \in UNION {Literals[k] : k \in -MaxNumeral..MaxNumeral} |->
        CHOOSE k \in -MaxNumeral..MaxNumeral : s \in Literals[k]]

\* Number(value).  A string is a number when it is a numeric literal; the
\* empty string is 0 and any other string (one with a thousands separator
\* too) is NaN.
Number(v) ==
    CASE v.t = "number" -> v
      [] v.t = "boolean" -> Num(IF v.b THEN 1 ELSE 0)
      [] v.t = "null" -> Num(0)
      [] v.t = "string" ->
            (IF v.s = "" THEN Num(0)
             ELSE IF v.s \in DOMAIN NumeralOf THEN Num(NumeralOf[v.s])
             ELSE NaN)
      [] OTHER -> NaN

\* new Date(value) in a process whose time zone is UTC (the Lambda runtime):
\* the calendar date, or InvalidDate.  The date strings of the model are one
\* ISO date and the MM/DD/YYYY form of it; any other string is no date; a
\* number is that many milliseconds after 1970-01-01.
InvalidDate == [valid |-> FALSE]
NewDate(v) ==
    CASE v.t = "string" /\ v.s \in {"2024-03-05", "03/05/2024"} ->
            [valid |-> TRUE, year |-> 2024, month |-> 3, day |-> 5]
      [] v.t = "number" /\ ~IsNaN(v) /\ v.n >= 0 /\ v.n < 86400000 ->
            [valid |-> TRUE, year |-> 1970, month |-> 1, day |-> 1]
      [] OTHER -> InvalidDate

\* String(n).padStart(2, '0')
Pad2(n) == IF n < 10 THEN "0" \o Digits(n) ELSE Digits(n)

\* transformDate(date, {dateFormat: 'MM/DD/YYYY'}): the getters of an invalid
\* date give NaN.
transformDate(date) ==
    IF date.valid
    THEN Pad2(date.month) \o "/" \o Pad2(date.day) \o "/" \o Digits(date.year)
    ELSE "NaN/NaN/NaN"

\* DataTransformer.transform(value, {type, options}) as processData calls it:
\* type 'date' with {dateFormat: 'MM/DD/YYYY'}, 'number' with {decimals: 2},
\* 'qrcode' with {}.
transform(value, type) ==
    IF value.t \in {"null", "undefined"} THEN value
    ELSE CASE type = "date" -> Str(transformDate(NewDate(value)))
           [] type = "number" ->
                (IF IsNaN(Number(value)) THEN Str("NaN")
                 ELSE Str(transformNumber(Number(value).n)))
           [] type = "qrcode" -> Str(QRDataUrl(String(value)))
           [] OTHER -> value

(***************************************************************************)
(* FieldValidator                                                          *)
(***************************************************************************)
\* a ?? b
Coalesce(a, b) == IF a.t \in {"null", "undefined"} THEN b ELSE a

\* customValidator(value) for the predicates of the model, named by what
\* they return: `isAda` a boolean, `explains` true or the reason as a string,
\* `blank` true or the empty string, `count` the number 1 or 0.
ApplyValidator(validator, value) ==
    CASE validator.name = "isAda" -> Bool(value = Str("Ada"))
      [] validator.name = "explains" ->
            (IF value = Str("Ada") THEN Bool(TRUE) ELSE Str("must be Ada"))
      [] validator.name = "blank" ->
            (IF value = Str("Ada") THEN Bool(TRUE) ELSE Str(""))
      [] OTHER -> Num(IF value = Str("Ada") THEN 1 ELSE 0)

\* value.length < ruleValue and value.length > ruleValue: false when the rule
\* value is no number.
LessThan(n, ruleValue) == ~IsNaN(Number(ruleValue)) /\ n < Number(ruleValue).n
GreaterThan(n, ruleValue) == ~IsNaN(Number(ruleValue)) /\ n > Number(ruleValue).n

\* validateRule: the `error` of the object returned, Undefined when the
\* object has none.
validateRule(value, rule) ==
    CASE rule.type = "required" ->
            (IF value.t \in {"null", "undefined"} \/ value = Str("")
             THEN Coalesce(rule.message, Str("Field is required"))
             ELSE Undefined)
      [] rule.type = "minLength" ->
            (IF value.t = "string" /\ LessThan(Len(value.s), rule.value)
             THEN Coalesce(rule.message,
                           Str("Minimum length is " \o String(rule.value)))
             ELSE Undefined)
      [] rule.type = "maxLength" ->
            (IF value.t = "string" /\ GreaterThan(Len(value.s), rule.value)
             THEN Coalesce(rule.message,
                           Str("Maximum length is " \o String(rule.value)))
             ELSE Undefined)
      [] rule.type = "pattern" ->
            (IF value.t = "string" /\ rule.value.t = "regexp"
                /\ value.s \notin rule.value.accepts
             THEN Coalesce(rule.message, Str("Invalid format"))
             ELSE Undefined)
      [] rule.type = "custom" ->
            (IF Truthy(rule.customValidator)
                /\ ApplyValidator(rule.customValidator, value) /= Bool(TRUE)
             THEN (IF ApplyValidator(rule.customValidator, value).t = "string"
                   THEN ApplyValidator(rule.customValidator, value)
                   ELSE Coalesce(rule.message, Str("Validation failed")))
             ELSE Undefined)
      [] OTHER -> Undefined

\* validate(value, rules): every rule is evaluated, in order; an error is
\* pushed when it is truthy (if (result.error)).
validate(value, rules) ==
    LET errs == SelectSeq([i \in 1..Len(rules) |-> validateRule(value, rules[i])],
                          Truthy)
    IN [isValid |-> Len(errs) = 0, errors |-> [i \in 1..Len(errs) |-> errs[i].s]]

(***************************************************************************)
(* The Template Store and the Field Store.                                 *)
(***************************************************************************)
\* Ids of the templates the Template Store holds.
KnownTemplates == {"t1"}

\* The PDFTemplateData getTemplate builds from a stored template: the page
\* list is always the one page written there, whatever the base document.
TemplateData(templateId) ==
    [id |-> templateId,
     pages |-> <<[number |-> 1, width |-> 612, height |-> 792]>>]

\* getTemplate: `storeThrows` tells whether findById threw (caught: null).
getTemplate(templateId, storeThrows) ==
    IF storeThrows \/ templateId \notin KnownTemplates
    THEN Null
    ELSE TemplateData(templateId)

\* A row of the Field Store.  `name` is the dotted path, already split;
\* `page` 0 is a row without a page; `validation` is the stored JSON text:
\* absent, the text of a rule list, or text JSON.parse rejects.
Row(id, name, type, page, validation, defaultValue, required) ==
    [id |-> id, name |-> name, type |-> type, page |-> page,
     x |-> 72, y |-> 700, width |-> 200, height |-> 40,
     fontFamily |-> Undefined, fontSize |-> 0, validation |-> validation,
     defaultValue |-> defaultValue, required |-> required]

NoValidation == [kind |-> "absent"]
Json(rules) == [kind |-> "json", rules |-> rules]
Malformed == [kind |-> "malformed"]

\* A FieldValidationRule {type, value, message, customValidator}.
Rule(type, value, message, customValidator) ==
    [type |-> type, value |-> value, message |-> message,
     customValidator |-> customValidator]

RequiredRule == Rule("required", Undefined, Undefined, Undefined)
MaxLengthRule(n) == Rule("maxLength", Num(n), Undefined, Undefined)

R_name == Row("f-name", <<"customer", "name">>, "text", 1, NoValidation, Undefined, TRUE)
R_title == Row("f-title", <<"title">>, "text", 0,
               Json(<<RequiredRule, MaxLengthRule(3)>>), Str("N/A"), FALSE)
R_far == Row("f-far", <<"note">>, "multiline-text", 2, NoValidation, Str("none"), FALSE)
R_logo == Row("f-logo", <<"logo">>, "image", 1, NoValidation, Undefined, FALSE)
R_choice == Row("f-choice", <<"choice">>, "radio", 1, NoValidation, Undefined, FALSE)
R_agree == Row("f-agree", <<"agree">>, "checkbox", 1, NoValidation, Undefined, TRUE)
R_code == Row("f-code", <<"code">>, "text", 1, Json(<<RequiredRule>>), Undefined, TRUE)
R_bad == Row("f-bad", <<"bad">>, "text", 1, Malformed, Undefined, FALSE)
R_amount == Row("f-amount", <<"amount">>, "number", 1,
                Json(<<MaxLengthRule(5)>>), Undefined, FALSE)
R_optin == Row("f-optin", <<"optin">>, "checkbox", 1, NoValidation, Bool(TRUE), FALSE)
R_qr == Row("f-qr", <<"ref">>, "qrcode", 1, NoValidation, Undefined, FALSE)
\* The stored rule list is JSON text: the value of a pattern rule is the
\* source of the regular expression, a string.
R_ref == Row("f-ref", <<"ref">>, "text", 1,
             Json(<<Rule("pattern", Str("^INV-[0-9]+$"), Undefined, Undefined)>>),
             Str("INV-0"), FALSE)
\* A narrow, low box: five characters a line, room for two lines.
R_memo ==
    [Row("f-memo", <<"memo">>, "multiline-text", 1, NoValidation, Str("n/a"), FALSE)
        EXCEPT !.width = 30, !.height = 20]

\* The field lists the Field Store may hold for a template.
FieldLists ==
    { <<>>,
      <<R_name, R_title>>,
      <<R_title, R_far, R_logo>>,
      <<R_choice, R_agree, R_code>>,
      <<R_name, R_bad>>,
      <<R_amount, R_optin>>,
      <<R_qr, R_ref, R_memo>> }

\* The conversion of one row (the body of fields.map in getTemplateFields).
FieldOfRow(row) ==
    [id |-> row.id, name |-> row.name, type |-> row.type,
     page |-> IF row.page = 0 THEN 1 ELSE row.page,
     position |-> [x |-> row.x, y |-> row.y],
     dimensions |-> [width |-> row.width, height |-> row.height],
     fontSize |-> IF row.fontSize = 0 THEN 12 ELSE row.fontSize,
     family |-> IF Truthy(row.fontFamily) THEN row.fontFamily.s ELSE "Helvetica",
     hasValidation |-> row.validation.kind = "json",
     validation |-> IF row.validation.kind = "json" THEN row.validation.rules ELSE <<>>,
     defaultValue |-> row.defaultValue,
     required |-> row.required]

\* getTemplateFields: `rows` is what findByTemplateId returned, `storeThrows`
\* whether it threw instead.  Any exception, of the store or of the conversion
\* of one row, is caught and the result is the empty list.
getTemplateFields(rows, storeThrows) ==
    IF storeThrows \/ \E i \in 1..Len(rows) : rows[i].validation.kind = "malformed"
    THEN <<>>
    ELSE [i \in 1..Len(rows) |-> FieldOfRow(rows[i])]

(***************************************************************************)
(* processData                                                             *)
(***************************************************************************)
\* The value processData stores for one field.
ProcessedValue(data, field) ==
    LET value == getNestedValue(data, field.name)
        checked == IF field.hasValidation /\ ~validate(value, field.validation).isValid
                   THEN field.defaultValue
                   ELSE value
    IN IF field.type \in {"date", "number", "qrcode"} /\ Truthy(checked)
       THEN transform(checked, field.type)
       ELSE checked

processData(data, flds) ==
    [id \in {flds[i].id : i \in 1..Len(flds)} |->
        ProcessedValue(data, CHOOSE f \in {flds[i] : i \in 1..Len(flds)} : f.id = id)]

(***************************************************************************)
(* FontManager                                                             *)
(***************************************************************************)
\* fontFamily.toLowerCase() for the family names of the model.
Lower(family) ==
    CASE family = "Helvetica" -> "helvetica"
      [] family = "Arial" -> "arial"
      [] family = "Times" -> "times"
      [] family = "Courier" -> "courier"
      [] OTHER -> family

\* The switch of getFont: the standard font a family name is mapped to.
StandardFont(family) ==
    CASE Lower(family) \in {"helvetica", "arial", "sans-serif"} -> "Helvetica"
      [] Lower(family) \in {"helvetica-bold", "arial-bold"} -> "Helvetica-Bold"
      [] Lower(family) \in {"times", "times-roman", "serif"} -> "Times-Roman"
      [] Lower(family) = "times-bold" -> "Times-Bold"
      [] Lower(family) \in {"courier", "monospace"} -> "Courier"
      [] Lower(family) = "courier-bold" -> "Courier-Bold"
      [] OTHER -> "Helvetica"

\* The cache key getFont computes for (doc, fontFamily).
CacheKey(docId, family) == family

\* getFont(doc, fontFamily) against the cache `cache`: the PDFFont returned
\* and the cache afterwards.  A PDFFont is the standard font it stands for
\* and the document it was embedded into (doc.embedFont).
getFont(cache, docId, family) ==
    LET key == CacheKey(docId, family) IN
    IF key \in DOMAIN cache
    THEN [font |-> cache[key], cache |-> cache]
    ELSE LET font == [doc |-> docId, std |-> StandardFont(family)]
         IN [font |-> font, cache |-> (key :> font) @@ cache]

(***************************************************************************)
(* FieldProcessor.  A renderer works on a context: the document's draw log *)
(* `ops`, the font cache, and `threw`, set once a call of the PDF library  *)
(* has thrown (nothing after it runs).  `fail` tells whether the PDF       *)
(* library throws at the renderer's first drawing call.                    *)
(***************************************************************************)
Ctx(ops, cache) == [ops |-> ops, cache |-> cache, threw |-> FALSE]

Draw(ctx, op, fail) ==
    IF ctx.threw THEN ctx
    ELSE IF fail THEN [ctx EXCEPT !.threw = TRUE]
    ELSE [ctx EXCEPT !.ops = Append(@, op)]

\* font.widthOfTextAtSize(text, fontSize): every character is half the font
\* size wide.
WidthOfTextAtSize(text, fontSize) == (Len(text) * fontSize) \div 2

\* The loop of wrapText over the words left, with its `currentLine` and
\* `lines`, and the push of the last line after it.
RECURSIVE WrapWords(_, _, _, _, _)
WrapWords(words, currentLine, lines, maxWidth, fontSize) ==
    IF words = <<>>
    THEN (IF currentLine /= "" THEN Append(lines, currentLine) ELSE lines)
    ELSE LET word == Head(words)
             testLine == IF currentLine /= "" THEN currentLine \o " " \o word
                         ELSE word
         IN IF WidthOfTextAtSize(testLine, fontSize) <= maxWidth
            THEN WrapWords(Tail(words), testLine, lines, maxWidth, fontSize)
            ELSE IF currentLine /= ""
            THEN WrapWords(Tail(words), word, Append(lines, currentLine),
                           maxWidth, fontSize)
            ELSE WrapWords(Tail(words), "", Append(lines, word), maxWidth, fontSize)

\* wrapText(text, maxWidth, font, fontSize): `words` is text.split(' ').
wrapText(words, maxWidth, fontSize) == WrapWords(words, "", <<>>, maxWidth, fontSize)

\* text.split(' ') for the texts of the model: the only text with spaces is
\* "one two three four"; any other text, the empty one too, is one word.
Split(text) ==
    IF text = "one two three four" THEN <<"one", "two", "three", "four">>
    ELSE <<text>>

\* Coordinates are in tenths of a point, so that the line height
\* fontSize * 1.2 is the integer 12 * fontSize.
Tenths(points) == 10 * points
LineHeight(fontSize) == 12 * fontSize

\* page.drawText(text, {x, y, size, font, color}) of renderTextField.
TextOp(field, text, font, y) ==
    [kind |-> "drawText", field |-> field.id, text |-> text, font |-> font, y |-> y]

\* The loop over the wrapped lines with no test of the cursor.
RECURSIVE DrawLines_NoBreak(_, _, _, _, _, _)
DrawLines_NoBreak(ctx, field, lines, font, yPosition, fail) ==
    IF lines = <<>> \/ ctx.threw THEN ctx
    ELSE DrawLines_NoBreak(Draw(ctx, TextOp(field, Head(lines), font, yPosition), fail),
                           field, Tail(lines), font,
                           yPosition - LineHeight(field.fontSize), FALSE)

\* The loop of renderTextField over the wrapped lines: break when the cursor
\* is below the box, else draw the line at the cursor and move the cursor down
\* by the line height.
RECURSIVE DrawLines(_, _, _, _, _, _)
DrawLines(ctx, field, lines, font, yPosition, fail) ==
    IF lines = <<>> \/ ctx.threw THEN ctx
    ELSE IF yPosition < Tenths(field.position.y - field.dimensions.height) THEN ctx
    ELSE DrawLines(Draw(ctx, TextOp(field, Head(lines), font, yPosition), fail),
                   field, Tail(lines), font,
                   yPosition - LineHeight(field.fontSize), FALSE)

renderTextField(ctx, docId, field, value, fail) ==
    LET text == String(Or(Or(value, field.defaultValue), Str("")))
        got == getFont(ctx.cache, docId, field.family)
        withFont == [ctx EXCEPT !.cache = got.cache]
    IN IF ctx.threw THEN ctx
       ELSE IF field.type = "multiline-text"
       THEN DrawLines(withFont, field,
                      wrapText(Split(text), field.dimensions.width, field.fontSize),
                      got.font, Tenths(field.position.y), fail)
       ELSE Draw(withFont, TextOp(field, text, got.font, Tenths(field.position.y)),
                 fail)

\* Number.prototype.toLocaleString() in the en-US locale.
toLocaleString(num) ==
    IF IsNaN(num) THEN "NaN"
    ELSE (IF num.n < 0 THEN "-" ELSE "")
         \o Grouped(IF num.n < 0 THEN -num.n ELSE num.n, ",")

renderNumberField(ctx, docId, field, value, fail) ==
    LET numValue == Number(Or(Or(value, field.defaultValue), Num(0)))
    IN renderTextField(ctx, docId, field, Str(toLocaleString(numValue)), fail)

renderCheckboxField(ctx, docId, field, value, fail) ==
    LET box == Draw(ctx, [kind |-> "drawRectangle", field |-> field.id], fail)
        got == getFont(box.cache, docId, "Helvetica")
    IN IF box.threw \/ ~Truthy(value) THEN box
       ELSE Draw([box EXCEPT !.cache = got.cache],
                 [kind |-> "drawText", field |-> field.id, text |-> "check",
                  font |-> got.font], FALSE)

\* The data URIs of the model: value.startsWith('data:image/') with a
\* non-empty part after the comma, naming image/png.
PngDataUris == {"data:image/png;base64,AAAA"}

\* The texts QRCode.toDataURL is given in the model.
QRTexts ==
    {"undefined", "INV-1", "bogus", QRDataUrl("INV-1"), QRDataUrl("bogus")}

\* value.startsWith('data:image/') with data after the comma and
\* value.includes('image/png').
IsPngDataUri(text) == text \in PngDataUris \cup {QRDataUrl(q) : q \in QRTexts}

\* renderImageField: everything is inside try/catch, the exception of
\* embedPng, embedJpg or drawImage is logged and dropped.
renderImageField(ctx, docId, field, value, fail) ==
    IF ctx.threw THEN ctx
    ELSE IF ~Truthy(value) \/ value.t /= "string" THEN ctx
    ELSE IF ~IsPngDataUri(value.s) THEN ctx
    ELSE IF fail THEN ctx
    ELSE Draw(ctx, [kind |-> "drawImage", field |-> field.id, image |-> value.s], FALSE)

\* Date.prototype.toLocaleDateString() in the en-US locale.
toLocaleDateString(date) ==
    IF date.valid
    THEN Digits(date.month) \o "/" \o Digits(date.day) \o "/" \o Digits(date.year)
    ELSE "Invalid Date"

\* new Date(): the day the call runs.
Today == [valid |-> TRUE, year |-> 2026, month |-> 1, day |-> 1]

renderDateField(ctx, docId, field, value, fail) ==
    LET given == Or(value, field.defaultValue)
        dateValue == IF Truthy(given) THEN NewDate(given) ELSE Today
    IN renderTextField(ctx, docId, field, Str(toLocaleDateString(dateValue)), fail)

\* renderQRCodeField: QRCode.toDataURL(String(value)), then the image path;
\* inside try/catch, the exception is logged and dropped.
renderQRCodeField(ctx, docId, field, value, fail) ==
    renderImageField(ctx, docId, field, Str(QRDataUrl(String(value))), fail)

\* Draws one text per element of `texts`, each with `font`.
RECURSIVE DrawTexts(_, _, _, _, _)
DrawTexts(ctx, id, texts, font, fail) ==
    IF texts = <<>> THEN ctx
    ELSE DrawTexts(Draw(ctx, [kind |-> "drawText", field |-> id,
                              text |-> Head(texts), font |-> font], fail),
                   id, Tail(texts), font, FALSE)

\* The cells of a table in drawing order: the headers, then of each row
\* that starts inside the field's height the first headers.length cells.
RECURSIVE TableCells(_, _, _, _)
TableCells(rows, columns, rowHeight, room) ==
    IF rows = <<>> \/ rowHeight > room THEN <<>>
    ELSE SubSeq(Head(rows), 1, IF Len(Head(rows)) < columns THEN Len(Head(rows))
                               ELSE columns)
         \o TableCells(Tail(rows), columns, rowHeight, room - rowHeight)

\* renderTableField: value is {headers: string[], rows: string[][]}.  The
\* row height is fontSize * 1.5, in halves of a point here.
renderTableField(ctx, docId, field, value, fail) ==
    IF ctx.threw THEN ctx
    ELSE IF ~Truthy(value) \/ ~Truthy(Prop(value, "headers"))
            \/ ~Truthy(Prop(value, "rows")) THEN ctx
    ELSE LET got == getFont(ctx.cache, docId, field.family)
             headers == Prop(value, "headers").a
             rows == Prop(value, "rows").a
         IN DrawTexts([ctx EXCEPT !.cache = got.cache], field.id,
                      headers \o TableCells(rows, Len(headers), 3 * field.fontSize,
                                            2 * field.dimensions.height),
                      got.font, fail)

\* renderSignatureField: value is a SignatureConfig.
renderSignatureField(ctx, docId, field, value, fail) ==
    IF ctx.threw \/ ~Truthy(value) THEN ctx
    ELSE LET signed ==
                IF Prop(value, "type") = Str("image") /\ Truthy(Prop(value, "imageUrl"))
                THEN renderImageField(ctx, docId, field, Prop(value, "imageUrl"), fail)
                ELSE IF Prop(value, "type") = Str("typed")
                        /\ Truthy(Prop(value, "signatureData"))
                THEN renderTextField(ctx, docId, field, Prop(value, "signatureData"), fail)
                ELSE ctx
             got == getFont(signed.cache, docId, "Helvetica")
         IN IF signed.threw THEN signed
            ELSE IF Truthy(Prop(value, "timestamp")) /\ Truthy(Prop(value, "certificateInfo"))
            THEN Draw([signed EXCEPT !.cache = got.cache],
                      [kind |-> "drawText", field |-> field.id, text |-> "Signed by",
                       font |-> got.font], FALSE)
            ELSE signed

\* renderField: the dispatch on field.type and its try/catch.  The result is
\* the context (never thrown) with the errors and warnings of the field.
SupportedTypes ==
    {"text", "multiline-text", "number", "date", "checkbox", "image", "qrcode",
     "table", "signature"}

FieldProcessingError(field) ==
    [code |-> "FIELD_PROCESSING_ERROR", field |-> field.id, severity |-> "error",
     details |-> <<>>]

UnsupportedWarning(field) ==
    [code |-> "UNSUPPORTED_FIELD_TYPE", field |-> field.id]

renderField(ctx, docId, field, value, fail) ==
    LET out == CASE field.type \in {"text", "multiline-text"} ->
                        renderTextField(ctx, docId, field, value, fail)
                 [] field.type = "number" ->
                        renderNumberField(ctx, docId, field, value, fail)
                 [] field.type = "date" ->
                        renderDateField(ctx, docId, field, value, fail)
                 [] field.type = "checkbox" ->
                        renderCheckboxField(ctx, docId, field, value, fail)
                 [] field.type = "image" ->
                        renderImageField(ctx, docId, field, value, fail)
                 [] field.type = "qrcode" ->
                        renderQRCodeField(ctx, docId, field, value, fail)
                 [] field.type = "table" ->
                        renderTableField(ctx, docId, field, value, fail)
                 [] field.type = "signature" ->
                        renderSignatureField(ctx, docId, field, value, fail)
                 [] OTHER -> ctx
    IN [ctx |-> [out EXCEPT !.threw = FALSE],
        errors |-> IF out.threw THEN <<FieldProcessingError(field)>> ELSE <<>>,
        warnings |-> IF field.type \in SupportedTypes THEN <<>>
                     ELSE <<UnsupportedWarning(field)>>]

(***************************************************************************)
(* PDFGenerator: the steps of generatePDF.                                 *)
(***************************************************************************)
FieldRenderError(field) ==
    [code |-> "FIELD_RENDER_ERROR", field |-> field.id, severity |-> "error",
     details |-> <<>>]

\* A loop body that records the missing page twice, once as the renderer would.
fillOne_ReportsTwice(ctx, d, field, value, fail) ==
    IF field.page - 1 < 0 \/ field.page - 1 >= d.pages
    THEN [ctx |-> ctx,
          errors |-> <<FieldRenderError(field), FieldProcessingError(field)>>,
          warnings |-> <<>>, threw |-> TRUE]
    ELSE LET r == renderField(ctx, d.id, field, value, fail)
         IN [ctx |-> r.ctx, errors |-> r.errors, warnings |-> r.warnings,
             threw |-> r.errors /= <<>>]

\* The body of the loop of fillPDFFields for one field: pdfDoc.getPage throws
\* for an index that is no page of the document, renderField does not throw.
\* `threw` tells whether an exception was raised while the field was rendered.
fillOne(ctx, d, field, value, fail) ==
    IF field.page - 1 < 0 \/ field.page - 1 >= d.pages
    THEN [ctx |-> ctx, errors |-> <<FieldRenderError(field)>>, warnings |-> <<>>,
          threw |-> TRUE]
    ELSE LET r == renderField(ctx, d.id, field, value, fail)
         IN [ctx |-> r.ctx, errors |-> r.errors, warnings |-> r.warnings,
             threw |-> r.errors /= <<>>]

\* The pages pdfDoc.getPages() returns.
Pages(d) == [p \in 1..d.pages |-> p]

\* applyWatermark: one drawText per page; its own try/catch drops an exception.
RECURSIVE WatermarkPages(_, _, _, _, _)
WatermarkPages(ctx, pages, watermark, font, fail) ==
    IF pages = <<>> THEN ctx
    ELSE WatermarkPages(
            Draw(ctx, [kind |-> "drawText", field |-> NoField, page |-> Head(pages),
                       text |-> Prop(watermark, "text"), font |-> font,
                       size |-> Or(Prop(watermark, "fontSize"), Num(48)),
                       opacity |-> Or(Prop(watermark, "opacity"), Num(30)),
                       rotate |-> Or(Prop(watermark, "rotation"), Num(-45))], fail),
            Tail(pages), watermark, font, FALSE)

applyWatermark(ctx, d, watermark, fail) ==
    LET got == getFont(ctx.cache, d.id, "Helvetica")
        out == WatermarkPages([ctx EXCEPT !.cache = got.cache], Pages(d), watermark,
                              got.font, fail)
    IN [out EXCEPT !.threw = FALSE]

\* The keys of options.metadata, in the order their setters are called.
MetadataKeys == <<"title", "author", "subject", "keywords", "creator", "producer">>

\* if (title) pdfDoc.setTitle(title); ... one setter per truthy key.
RECURSIVE SetMetadata(_, _, _, _)
SetMetadata(ctx, meta, keys, fail) ==
    IF keys = <<>> \/ ctx.threw THEN ctx
    ELSE IF Truthy(Prop(meta, Head(keys)))
    THEN SetMetadata(Draw(ctx, [kind |-> "setMetadata", field |-> NoField,
                                key |-> Head(keys)], fail),
                     meta, Tail(keys), FALSE)
    ELSE SetMetadata(ctx, meta, Tail(keys), fail)

\* applyPDFOptions: the metadata setters, then the watermark; nothing is done
\* for options.security.  An exception is caught and logged.  `fail`: the first
\* call into the PDF library throws.  Opacity is in percent.
applyPDFOptions(ctx, d, options, fail) ==
    LET meta == Prop(options, "metadata")
        set == IF Truthy(meta) THEN SetMetadata(ctx, meta, MetadataKeys, fail) ELSE ctx
        called == set.threw \/ Len(set.ops) > Len(ctx.ops)
    IN IF set.threw THEN [set EXCEPT !.threw = FALSE]
       ELSE IF Truthy(Prop(options, "watermark"))
       THEN applyWatermark(set, d, Prop(options, "watermark"), fail /\ ~called)
       ELSE set

\* pdfDoc.save(): the serialized document.
Serialize(d) == [pdf |-> d.id, pages |-> d.pages, content |-> d.ops]
\* pdfBytes.length
ByteLength(bytes) == 1 + bytes.pages + Len(bytes.content)
\* Buffer.from(pdfBytes)
BufferFrom(bytes) == [t |-> "buffer", bytes |-> bytes]
\* Buffer.from(pdfBytes).toString('base64')
Base64(bytes) == [t |-> "string", base64 |-> bytes]
\* 'data:application/pdf;base64,' + base64
DataUri(b64) == [t |-> "string", prefix |-> "data:application/pdf;base64,", base64 |-> b64]

\* prepareResult: the payload keys (the metadata key it also returns equals the
\* metadata of the result it is spread into).
prepareResult(pdfBytes, outputFormat) ==
    CASE outputFormat = "base64" ->
            [pdfBuffer |-> Undefined, pdfBase64 |-> Base64(pdfBytes),
             downloadUrl |-> Undefined]
      [] outputFormat = "url" ->
            [pdfBuffer |-> Undefined, pdfBase64 |-> Base64(pdfBytes),
             downloadUrl |-> DataUri(Base64(pdfBytes))]
      [] OTHER ->
            [pdfBuffer |-> BufferFrom(pdfBytes), pdfBase64 |-> Undefined,
             downloadUrl |-> Undefined]

\* errors.filter(e => e.field).length
FieldErrorCount(errs) == Len(SelectSeq(errs, LAMBDA e : e.field /= NoField))

\* request.options?.outputFormat || 'buffer'
OutputFormat(req) == String(Or(Prop(req.options, "outputFormat"), Str("buffer")))

\* A result whose success flag is cleared by recorded errors.
SuccessResult_FailsOnErrors(req, flds, d, errs, warns, pdfBytes) ==
    LET payload == prepareResult(pdfBytes, OutputFormat(req))
    IN [success |-> errs = <<>>,
        pdfBuffer |-> payload.pdfBuffer, pdfBase64 |-> payload.pdfBase64,
        downloadUrl |-> payload.downloadUrl,
        metadata |-> [fileSize |-> ByteLength(pdfBytes), pageCount |-> d.pages,
                      fieldsProcessed |-> Len(flds) - FieldErrorCount(errs),
                      fieldsSkipped |-> FieldErrorCount(errs)],
        errors |-> OptionalList(errs),
        warnings |-> OptionalList(warns)]

\* The value generatePDF returns after a successful save.
SuccessResult(req, flds, d, errs, warns, pdfBytes) ==
    LET payload == prepareResult(pdfBytes, OutputFormat(req))
    IN [success |-> TRUE,
        pdfBuffer |-> payload.pdfBuffer, pdfBase64 |-> payload.pdfBase64,
        downloadUrl |-> payload.downloadUrl,
        metadata |-> [fileSize |-> ByteLength(pdfBytes), pageCount |-> d.pages,
                      fieldsProcessed |-> Len(flds) - FieldErrorCount(errs),
                      fieldsSkipped |-> FieldErrorCount(errs)],
        errors |-> OptionalList(errs),
        warnings |-> OptionalList(warns)]

(***************************************************************************)
(* The requests of the model.                                              *)
(***************************************************************************)
TemplateIds == {Undefined, Str(""), Str("t0"), Str("t1")}

D_empty == Obj(<<>>)
D_ada ==
    Obj([customer |-> Obj([name |-> Str("Ada")]), title |-> Str("Dr"),
         agree |-> Bool(TRUE), code |-> Str("X1"), note |-> Str("hello"),
         logo |-> Str("data:image/png;base64,AAAA")])
D_long == Obj([title |-> Str("Doctor"), code |-> Str(""), agree |-> Bool(FALSE)])

D_bill == Obj([amount |-> Num(1234)])
D_small == Obj([amount |-> Num(12), optin |-> Bool(FALSE)])

D_inv == Obj([ref |-> Str("INV-1"), memo |-> Str("one two three four")])
\* Values that are present and falsy.
D_blank == Obj([ref |-> Str("bogus"), memo |-> Str(""), amount |-> Num(0)])

Datas ==
    {Undefined, Null, Str("text"), D_empty, D_ada, D_long, D_bill, D_small, D_inv,
     D_blank}

O_base64 == Obj([outputFormat |-> Str("base64")])
O_url == Obj([outputFormat |-> Str("url"),
              security |-> Obj([userPassword |-> Str("secret")])])
O_mark == Obj([outputFormat |-> Str("buffer"),
               metadata |-> Obj([title |-> Str("Report"), author |-> Str("Ada")]),
               watermark |-> Obj([text |-> Str("DRAFT")])])
O_secure == Obj([security |-> Obj([ownerPassword |-> Str("secret")])])
\* A watermark with every setting supplied: invisible, not rotated, small.
O_flat == Obj([watermark |-> Obj([text |-> Str("COPY"), opacity |-> Num(0),
                                  rotation |-> Num(0), fontSize |-> Num(20)])])

OptionsSet == {Undefined, O_base64, O_url, O_mark, O_secure, O_flat}

Requests ==
    [templateId : TemplateIds, data : Datas, options : OptionsSet]

(***************************************************************************)
(* The state machine.                                                      *)
(***************************************************************************)
Init ==
    /\ pc = "idle"
    /\ callNo = 0
    /\ request = NoRequest
    /\ fields = <<>>
    /\ doc = NoDoc
    /\ processedData = <<>>
    /\ idx = 1
    /\ errors = <<>>
    /\ warnings = <<>>
    /\ result = NoResult
    /\ fontCache = <<>>
    /\ stored = <<>>
    /\ ioLog = <<>>
    /\ attempts = <<>>
    /\ threw = {}
    /\ fatal = "none"
    /\ call = NoCall

\* generatePDF(request) is called: the process is idle or the previous call
\* has returned.  Everything but the static font cache is local to the call.
Start ==
    /\ pc \in {"idle", "done"}
    /\ callNo < MaxCalls
    /\ \E req \in Requests : request' = req
    /\ callNo' = callNo + 1
    /\ pc' = "validate"
    /\ fields' = <<>>
    /\ doc' = NoDoc
    /\ processedData' = <<>>
    /\ idx' = 1
    /\ errors' = <<>>
    /\ warnings' = <<>>
    /\ result' = NoResult
    /\ stored' = <<>>
    /\ ioLog' = <<>>
    /\ attempts' = <<>>
    /\ threw' = {}
    /\ fatal' = "none"
    /\ UNCHANGED <<fontCache, call>>

\* The catch block of generatePDF: the call returns the failure result.
Fail(error, condition) ==
    /\ result' = FatalResult(errors, warnings, error)
    /\ pc' = "done"
    /\ fatal' = condition

\* validateRequest and the throw of ValidationError.
Validate ==
    /\ pc = "validate"
    /\ LET messages == validateRequest(request)
       IN IF messages /= <<>>
          THEN Fail(ValidationError(messages), "validation")
          ELSE pc' = "getTemplate" /\ UNCHANGED <<result, fatal>>
    /\ UNCHANGED <<call, stored, callNo, request, fields, doc, processedData, idx, errors,
                   warnings, fontCache, ioLog, attempts, threw>>

\* getTemplate: templatesRepo.findById returns the template, returns nothing,
\* or throws (caught: null); without a template TemplateNotFoundError.
GetTemplate ==
    /\ pc = "getTemplate"
    /\ ioLog' = Append(ioLog, "TemplateStore.findById")
    /\ \E storeThrows \in BOOLEAN :
          IF getTemplate(request.templateId.s, storeThrows) = Null
          THEN Fail(TemplateNotFoundError(request.templateId.s), "template")
          ELSE pc' = "getFields" /\ UNCHANGED <<result, fatal>>
    /\ UNCHANGED <<call, stored, callNo, request, fields, doc, processedData, idx, errors,
                   warnings, fontCache, attempts, threw>>

\* getTemplateFields: fieldsRepo.findByTemplateId returns rows or throws.
GetFields ==
    /\ pc = "getFields"
    /\ ioLog' = Append(ioLog, "FieldStore.findByTemplateId")
    /\ \E rows \in FieldLists, storeThrows \in BOOLEAN :
          /\ fields' = getTemplateFields(rows, storeThrows)
          /\ stored' = rows
    /\ pc' = "loadBase"
    /\ UNCHANGED <<call, callNo, request, doc, processedData, idx, errors, warnings,
                   result, fontCache, attempts, threw, fatal>>

\* loadBasePDF: the Blob Store returns the bytes or fails (TEMPLATE_LOAD_ERROR).
LoadBasePDF ==
    /\ pc = "loadBase"
    /\ ioLog' = Append(ioLog, "BlobStore.getObject")
    /\ \E storeThrows \in BOOLEAN :
          IF storeThrows
          THEN Fail(TemplateLoadError, "load")
          ELSE pc' = "parse" /\ UNCHANGED <<result, fatal>>
    /\ UNCHANGED <<call, stored, callNo, request, fields, doc, processedData, idx, errors,
                   warnings, fontCache, attempts, threw>>

\* PDFDocument.load(basePdfBuffer): a document of some page count, or the
\* bytes are no PDF and the library throws.
LoadDocument ==
    /\ pc = "parse"
    /\ \/ /\ Fail(LibraryError, "parse")
          /\ UNCHANGED doc
       \/ /\ \E n \in 1..MaxPages : doc' = [id |-> callNo, pages |-> n, ops |-> <<>>]
          /\ pc' = "processData"
          /\ UNCHANGED <<result, fatal>>
    /\ UNCHANGED <<call, stored, callNo, request, fields, processedData, idx, errors, warnings,
                   fontCache, ioLog, attempts, threw>>

ProcessData ==
    /\ pc = "processData"
    /\ processedData' = processData(request.data, fields)
    /\ pc' = "fill"
    /\ UNCHANGED <<call, stored, callNo, request, fields, doc, idx, errors, warnings, result,
                   fontCache, ioLog, attempts, threw, fatal>>

\* A loop of fillPDFFields without its try/catch: the first exception ends it.
FillField_AbortsOnThrow ==
    /\ pc = "fill"
    /\ idx <= Len(fields)
    /\ \E fail \in BOOLEAN :
          LET field == fields[idx]
              r == fillOne(Ctx(doc.ops, fontCache), doc, field,
                           processedData[field.id], fail)
          IN /\ doc' = [doc EXCEPT !.ops = r.ctx.ops]
             /\ fontCache' = r.ctx.cache
             /\ errors' = errors \o r.errors
             /\ warnings' = warnings \o r.warnings
             /\ attempts' = Append(attempts, field.id)
             /\ threw' = IF r.threw THEN threw \cup {field.id} ELSE threw
             /\ idx' = IF r.threw THEN Len(fields) + 1 ELSE idx + 1
    /\ UNCHANGED <<call, stored, pc, callNo, request, fields, processedData, result, ioLog, fatal>>

\* A loop of fillPDFFields that walks the field list from its end.
FillField_LastFirst ==
    /\ pc = "fill"
    /\ idx <= Len(fields)
    /\ \E fail \in BOOLEAN :
          LET field == fields[Len(fields) + 1 - idx]
              r == fillOne(Ctx(doc.ops, fontCache), doc, field,
                           processedData[field.id], fail)
          IN /\ doc' = [doc EXCEPT !.ops = r.ctx.ops]
             /\ fontCache' = r.ctx.cache
             /\ errors' = errors \o r.errors
             /\ warnings' = warnings \o r.warnings
             /\ attempts' = Append(attempts, field.id)
             /\ threw' = IF r.threw THEN threw \cup {field.id} ELSE threw
    /\ idx' = idx + 1
    /\ UNCHANGED <<call, stored, pc, callNo, request, fields, processedData, result, ioLog, fatal>>

\* One iteration of the loop of fillPDFFields.  The errors and warnings of the
\* loop are pushed onto those of generatePDF when it ends; nothing else is in
\* them before.
FillField ==
    /\ pc = "fill"
    /\ idx <= Len(fields)
    /\ \E fail \in BOOLEAN :
          LET field == fields[idx]
              r == fillOne(Ctx(doc.ops, fontCache), doc, field,
                           processedData[field.id], fail)
          IN /\ doc' = [doc EXCEPT !.ops = r.ctx.ops]
             /\ fontCache' = r.ctx.cache
             /\ errors' = errors \o r.errors
             /\ warnings' = warnings \o r.warnings
             /\ attempts' = Append(attempts, field.id)
             /\ threw' = IF r.threw THEN threw \cup {field.id} ELSE threw
    /\ idx' = idx + 1
    /\ UNCHANGED <<call, stored, pc, callNo, request, fields, processedData, result, ioLog, fatal>>

\* An applyPDFOptions without its try/catch: the exception of the PDF library
\* reaches the catch block of generatePDF.
ApplyOptions_Rethrows ==
    /\ pc = "fill"
    /\ idx > Len(fields)
    /\ \E fail \in BOOLEAN :
          LET out == applyPDFOptions(Ctx(doc.ops, fontCache), doc,
                                     Or(request.options, Obj(<<>>)), fail)
          IN /\ doc' = [doc EXCEPT !.ops = out.ops]
             /\ fontCache' = out.cache
             /\ IF out.ops /= applyPDFOptions(Ctx(doc.ops, fontCache), doc,
                                              Or(request.options, Obj(<<>>)), FALSE).ops
                THEN Fail(LibraryError, "options")
                ELSE pc' = "save" /\ UNCHANGED <<result, fatal>>
    /\ UNCHANGED <<call, stored, callNo, request, fields, processedData, idx, errors,
                   warnings, ioLog, attempts, threw>>

\* The loop has ended: applyPDFOptions(pdfDoc, request.options || {}).
ApplyOptions ==
    /\ pc = "fill"
    /\ idx > Len(fields)
    /\ \E fail \in BOOLEAN :
          LET out == applyPDFOptions(Ctx(doc.ops, fontCache), doc,
                                     Or(request.options, Obj(<<>>)), fail)
          IN /\ doc' = [doc EXCEPT !.ops = out.ops]
             /\ fontCache' = out.cache
    /\ pc' = "save"
    /\ UNCHANGED <<call, stored, callNo, request, fields, processedData, idx, errors, warnings,
                   result, ioLog, attempts, threw, fatal>>

\* pdfDoc.save(), prepareResult and the return; or save throws.
Save ==
    /\ pc = "save"
    /\ \/ Fail(LibraryError, "save")
       \/ /\ result' = SuccessResult(request, fields, doc, errors, warnings,
                                     Serialize(doc))
          /\ pc' = "done"
          /\ UNCHANGED fatal
    /\ UNCHANGED <<call, stored, callNo, request, fields, doc, processedData, idx, errors,
                   warnings, fontCache, ioLog, attempts, threw>>

Next ==
    \/ Start
    \/ Validate
    \/ GetTemplate
    \/ GetFields
    \/ LoadBasePDF
    \/ LoadDocument
    \/ ProcessData
    \/ FillField
    \/ ApplyOptions
    \/ Save

Spec == Init /\ [][Next]_vars

(***************************************************************************)
(* The utility functions called on their own.                              *)
(***************************************************************************)
\* The sequences over `S` of at most `n` elements.
SeqUpTo(S, n) == UNION {[1..k -> S] : k \in 0..n}

\* The longest rule list of a validate call.
MaxRules == 2

\* The values handed to FieldValidator.validate.
ValidatedValues ==
    {Undefined, Null, Str(""), Str("Ada"), Str("Al"), Str("Alexander"),
     Num(0), Num(5), Bool(FALSE)}

Validator(name) == [t |-> "function", name |-> name]
RegExp(accepts) == [t |-> "regexp", accepts |-> accepts]

\* The rules of a validate call.
Rules ==
    {RequiredRule,
     Rule("required", Undefined, Str("Name is required"), Undefined),
     Rule("required", Undefined, Str(""), Undefined),
     Rule("minLength", Num(3), Undefined, Undefined),
     MaxLengthRule(3),
     Rule("pattern", RegExp({"Ada", "Alexander"}), Undefined, Undefined),
     Rule("custom", Undefined, Undefined, Validator("isAda")),
     Rule("custom", Undefined, Undefined, Validator("explains")),
     Rule("custom", Undefined, Undefined, Validator("blank")),
     Rule("custom", Undefined, Str("Not Ada"), Validator("count")),
     Rule("custom", Undefined, Undefined, Undefined)}

\* FieldValidator.validate(value, rules)
CallValidate ==
    /\ call = NoCall
    /\ \E value \in ValidatedValues, rules \in SeqUpTo(Rules, MaxRules) :
          call' = [fn |-> "validate", value |-> value, rules |-> rules,
                   out |-> validate(value, rules)]
    /\ UNCHANGED generator

\* The longest dotted path of a getNestedValue call.
MaxPath == 3

\* The segments of the paths.
Segments == {"a", "b", "c"}

\* The values a data mapping holds under a key.
Leaves == {Num(0), Bool(FALSE), Str(""), Null, Undefined, Num(7), Str("x")}

\* The first arguments of getNestedValue: no object, primitives, and
\* mappings one, two and three levels deep.
NestedObjects ==
    {Undefined, Null, Num(0), Num(5), Str(""), Str("x"), Bool(TRUE), Obj(<<>>)}
    \cup {Obj([a |-> leaf]) : leaf \in Leaves}
    \cup {Obj([a |-> Obj([b |-> leaf]), c |-> Num(1)]) : leaf \in Leaves}
    \cup {Obj([a |-> Obj([b |-> Obj([c |-> leaf])])]) : leaf \in Leaves}

\* DataTransformer.getNestedValue(obj, path)
CallGetNestedValue ==
    /\ call = NoCall
    /\ \E obj \in NestedObjects, path \in SeqUpTo(Segments, MaxPath) \ {<<>>} :
          call' = [fn |-> "getNestedValue", obj |-> obj, path |-> path,
                   out |-> getNestedValue(obj, path)]
    /\ UNCHANGED generator

\* The most words of a wrapped text.
MaxWords == 3

\* The words of the texts: text.split(' ') gives the empty word between two
\* spaces.
Words == {"", "a", "to", "the", "quick", "Supercalifragilistic"}

\* The widths of the fields, in points.
FieldWidths == {24, 40, 200}

\* FieldProcessor.wrapText(text, maxWidth, font, 12)
CallWrapText ==
    /\ call = NoCall
    /\ \E words \in SeqUpTo(Words, MaxWords) \ {<<>>}, maxWidth \in FieldWidths :
          call' = [fn |-> "wrapText", words |-> words, maxWidth |-> maxWidth,
                   fontSize |-> 12, out |-> wrapText(words, maxWidth, 12)]
    /\ UNCHANGED generator

NextUtils ==
    \/ CallValidate
    \/ CallGetNestedValue
    \/ CallWrapText

SpecUtils == Init /\ [][NextUtils]_vars

(***************************************************************************)
(* Properties.                                                             *)
(***************************************************************************)
Returned == pc = "done"

\* The entries of an errors or warnings key of a result, none when absent.
List(v) == IF v.t = "array" THEN v.a ELSE <<>>

\* The request lacks a templateId.
MissingTemplateId(req) == req.templateId \in {Undefined, Null, Str("")}
\* The request's data is missing or is no object.
BadData(req) == req.data.t /= "object"

\* The messages of the validation failures of a request, in order.
ExpectedMessages(req) ==
    (IF MissingTemplateId(req) THEN <<"Template ID is required">> ELSE <<>>)
    \o (IF BadData(req) THEN <<"Data object is required">> ELSE <<>>)

\* C1: a request without templateId, or whose data is missing or no object,
\* makes generatePDF return before any Template Store, Field Store or Blob
\* Store call: the call log stays empty at every step, and the result is
\* success=false with the single error VALIDATION_ERROR whose details are the
\* validation messages.
C1_ValidationBeforeIO ==
    (callNo > 0 /\ (MissingTemplateId(request) \/ BadData(request)))
    => /\ ioLog = <<>>
       /\ doc = NoDoc
       /\ Returned =>
            /\ result.success = FALSE
            /\ Len(List(result.errors)) = 1
            /\ List(result.errors)[1].code = "VALIDATION_ERROR"
            /\ List(result.errors)[1].details = ExpectedMessages(request)

C1_Witness ==
    /\ Returned
    /\ request.templateId = Str("t1")
    /\ request.data = Str("text")
    /\ result.success = FALSE
    /\ List(result.errors)[1].details = <<"Data object is required">>

HasCode(errs, code) == \E i \in 1..Len(errs) : errs[i].code = code

\* C2: a result with success=false carries no document payload (pdfBuffer,
\* pdfBase64 and downloadUrl absent), a non-empty errors list and a metadata
\* block of zeros, whichever fatal condition ended the call; a valid request
\* whose template id the Template Store does not resolve ends with the error
\* TEMPLATE_NOT_FOUND, no document loaded and nothing drawn.
C2_FatalResultIsEmpty ==
    Returned =>
      /\ fatal /= "none" =>
            /\ result.success = FALSE
            /\ result.pdfBuffer = Undefined
            /\ result.pdfBase64 = Undefined
            /\ result.downloadUrl = Undefined
            /\ Len(List(result.errors)) > 0
            /\ result.metadata = [fileSize |-> 0, pageCount |-> 0,
                                  fieldsProcessed |-> 0, fieldsSkipped |-> 0]
      /\ (ExpectedMessages(request) = <<>>
          /\ request.templateId.s \notin KnownTemplates) =>
            /\ result.success = FALSE
            /\ HasCode(List(result.errors), "TEMPLATE_NOT_FOUND")
            /\ doc = NoDoc

C2_Witness ==
    /\ Returned
    /\ fatal = "save"
    /\ Len(errors) > 0
    /\ result.success = FALSE

\* The ids of a field list, in order.
Ids(flds) == [i \in 1..Len(flds) |-> flds[i].id]

HasField(entries, id) == \E i \in 1..Len(entries) : entries[i].field = id

Payload(r) ==
    {k \in {"pdfBuffer", "pdfBase64", "downloadUrl"} : r[k] /= Undefined}

\* C4: generatePDF returns success=false exactly when a fatal condition ended
\* the call (invalid request, template not found, base document not loaded or
\* not parsed, save failed); otherwise the result is success=true whatever
\* the field loop recorded, it carries exactly the errors and warnings of the
\* loop, a document payload, and a metadata block with a positive file size
\* and the page count of the document.
C4_SuccessUnlessFatal ==
    Returned =>
      /\ result.success = (fatal = "none")
      /\ fatal \in {"none", "validation", "template", "load", "parse", "save"}
      /\ fatal = "none" =>
            /\ List(result.errors) = errors
            /\ List(result.warnings) = warnings
            /\ Payload(result) /= {}
            /\ result.metadata.fileSize > 0
            /\ result.metadata.pageCount = doc.pages
            /\ result.metadata.pageCount > 0

C4_Witness ==
    /\ Returned
    /\ result.success
    /\ Len(List(result.errors)) >= 2
    /\ Len(List(result.warnings)) >= 1
    /\ result.pdfBuffer /= Undefined

\* The place of a draw operation in the order of a call: the index of its
\* field in the field list, and past all fields for a document-level
\* operation (metadata, watermark).
OpRank(op, flds) ==
    IF op.field = NoField THEN Len(flds) + 1
    ELSE CHOOSE i \in 1..Len(flds) : flds[i].id = op.field

\* C5: the operations on the document are in field-list order, all
\* operations of field i before any of field i+1, the document-level ones
\* (metadata, watermark) after every field's; none of the latter exists
\* while the field loop runs; and what a successful call returns is the
\* serialization of the document as it stands, so nothing was drawn after
\* save.
C5_DrawOrder ==
    /\ \A i, j \in 1..Len(doc.ops) :
          i < j => OpRank(doc.ops[i], fields) <= OpRank(doc.ops[j], fields)
    /\ \A i \in 1..Len(doc.ops) :
          /\ doc.ops[i].field /= NoField =>
                doc.ops[i].field \in {attempts[k] : k \in 1..Len(attempts)}
          /\ (pc = "fill" /\ idx <= Len(fields)) => doc.ops[i].field /= NoField
    /\ (Returned /\ result.success) =>
          /\ result.metadata.fileSize = ByteLength(Serialize(doc))
          /\ \A k \in Payload(result) :
                result[k] \in {BufferFrom(Serialize(doc)), Base64(Serialize(doc)),
                               DataUri(Base64(Serialize(doc)))}

C5_Witness ==
    /\ Returned
    /\ result.success
    /\ Len(doc.ops) >= 4
    /\ doc.ops[1].field = "f-title"
    /\ doc.ops[2].field = "f-far"
    /\ doc.ops[3].field = "f-logo"
    /\ doc.ops[Len(doc.ops)].field = NoField

\* C6: every font a draw operation of a call uses was embedded into the
\* document of that call: the font cache hands a document no font of another
\* document.
C6_FontOfOwnDocument ==
    \A i \in 1..Len(doc.ops) :
        "font" \in DOMAIN doc.ops[i] => doc.ops[i].font.doc = doc.id

\* The field's value in the request fails the field's validation rules.
FailsValidation(req, field) ==
    /\ field.hasValidation
    /\ ~validate(getNestedValue(req.data, field.name), field.validation).isValid

\* C7: in a successful result, every field whose value failed its validation
\* rules was given its default value and has a warning entry in the result.
C7_InvalidValueWarned ==
    (Returned /\ result.success) =>
        \A i \in 1..Len(fields) :
            FailsValidation(request, fields[i]) =>
                /\ processedData[fields[i].id] = fields[i].defaultValue
                /\ HasField(List(result.warnings), fields[i].id)

\* The field is required, has no default value, and the request's data has
\* no value for it.
MissingRequired(req, field) ==
    /\ field.required
    /\ field.defaultValue = Undefined
    /\ getNestedValue(req.data, field.name) = Undefined

\* C8: in a returned result without fatal condition, every required field
\* without default value and without input value has a warning or an error
\* entry whose field is its id, and success is true.
C8_MissingRequiredReported ==
    (Returned /\ fatal = "none") =>
        /\ result.success
        /\ \A i \in 1..Len(fields) :
              MissingRequired(request, fields[i]) =>
                  \/ HasField(List(result.errors), fields[i].id)
                  \/ HasField(List(result.warnings), fields[i].id)

\* C9: a successful result of a request that carries options.security has a
\* warning about the document (one that names no field) telling that security
\* was not applied.
C9_SecurityWarned ==
    (Returned /\ result.success /\ Truthy(Prop(request.options, "security"))) =>
        HasField(List(result.warnings), NoField)

\* The payload key options.outputFormat selects.
SelectedKey(format) ==
    CASE format = "base64" -> "pdfBase64"
      [] format = "url" -> "downloadUrl"
      [] OTHER -> "pdfBuffer"

\* The representation of the serialized document `bytes` under a payload key.
Representation(key, bytes) ==
    CASE key = "pdfBase64" -> Base64(bytes)
      [] key = "downloadUrl" -> DataUri(Base64(bytes))
      [] OTHER -> BufferFrom(bytes)

\* C10: a successful result has exactly one payload key, the one
\* options.outputFormat selects (pdfBuffer when absent), holding the
\* representation of the serialized document.
C10_ExactlyOnePayload ==
    (Returned /\ result.success) =>
        /\ Payload(result) = {SelectedKey(OutputFormat(request))}
        /\ \A k \in Payload(result) : result[k] = Representation(k, Serialize(doc))

\* The indices of the fields whose type renderField has no case for.
Unsupported(flds) == {i \in 1..Len(flds) : flds[i].type \notin SupportedTypes}

\* The entries of a list that name the field `id`.
EntriesOf(entries, id) == SelectSeq(entries, LAMBDA e : e.field = id)

\* C11: in a successful result every field of an unsupported type (radio,
\* dropdown, barcode) has exactly one warning, of code UNSUPPORTED_FIELD_TYPE,
\* and no error, nothing was drawn for it, and metadata.fieldsSkipped counts
\* it among the skipped fields.
C11_UnsupportedSkipped ==
    (Returned /\ fatal = "none") =>
        /\ result.success
        /\ \A i \in Unsupported(fields) :
              /\ Len(EntriesOf(List(result.warnings), fields[i].id)) = 1
              /\ EntriesOf(List(result.warnings), fields[i].id)[1].code
                    = "UNSUPPORTED_FIELD_TYPE"
              /\ EntriesOf(List(result.errors), fields[i].id) = <<>>
              /\ EntriesOf(doc.ops, fields[i].id) = <<>>
        /\ result.metadata.fieldsSkipped >= Cardinality(Unsupported(fields))

\* The watermark drawings of the document, in order.
WatermarkOps == SelectSeq(doc.ops, LAMBDA op : op.kind = "drawText" /\ op.field = NoField)

\* A setting of the watermark: the caller's value when one is supplied, the
\* default when the key is absent.
Supplied(watermark, key, default) ==
    IF Prop(watermark, key) = Undefined THEN default ELSE Prop(watermark, key)

\* C12: once the options are applied to a request with options.watermark,
\* the watermark text is drawn once on every page, in page order (or on none,
\* when the PDF library refused the drawing), and every drawing has the
\* caller's font size, opacity (in percent) and rotation where supplied, 0
\* included, and 48, 30 and -45 where absent.
C12_WatermarkSettings ==
    LET watermark == Prop(request.options, "watermark") IN
    ((pc = "save" \/ (Returned /\ fatal \in {"none", "save"})) /\ Truthy(watermark)) =>
        /\ \/ WatermarkOps = <<>>
           \/ [i \in 1..Len(WatermarkOps) |-> WatermarkOps[i].page] = Pages(doc)
        /\ \A i \in 1..Len(WatermarkOps) :
              /\ WatermarkOps[i].text = Prop(watermark, "text")
              /\ WatermarkOps[i].size = Supplied(watermark, "fontSize", Num(48))
              /\ WatermarkOps[i].opacity = Supplied(watermark, "opacity", Num(30))
              /\ WatermarkOps[i].rotate = Supplied(watermark, "rotation", Num(-45))

\* The request's data is a mapping without keys.
EmptyData(req) == req.data.t = "object" /\ DOMAIN req.data.o = {}

\* C13: a request whose data is an empty mapping is refused by the request
\* validation: no store is called for it, and the call returns success=false
\* with the error VALIDATION_ERROR.
C13_EmptyDataRejected ==
    (callNo > 0 /\ EmptyData(request)) =>
        /\ ioLog = <<>>
        /\ Returned =>
              /\ result.success = FALSE
              /\ HasCode(List(result.errors), "VALIDATION_ERROR")

\* C14: a call that returns success=true without any error reports as
\* metadata.pageCount the length of the page list of its template.
C14_PageCountOfTemplate ==
    (Returned /\ result.success /\ List(result.errors) = <<>>) =>
        result.metadata.pageCount = Len(TemplateData(request.templateId.s).pages)

\* The rule fails for the value: `required` on null, undefined and the empty
\* string, minLength and maxLength on a string too short or too long, pattern
\* on a string the expression rejects, a custom predicate unless it returns
\* true.
RuleFails(value, rule) ==
    CASE rule.type = "required" -> value \in {Null, Undefined, Str("")}
      [] rule.type = "minLength" -> value.t = "string" /\ Len(value.s) < rule.value.n
      [] rule.type = "maxLength" -> value.t = "string" /\ Len(value.s) > rule.value.n
      [] rule.type = "pattern" -> value.t = "string" /\ value.s \notin rule.value.accepts
      [] rule.type = "custom" ->
            /\ rule.customValidator /= Undefined
            /\ ApplyValidator(rule.customValidator, value) /= Bool(TRUE)
      [] OTHER -> FALSE

\* C15: validate returns one error per failing rule of the list, in rule
\* order, and isValid exactly when no rule failed; the error of a custom
\* predicate that returned a string is that string.
C15_EveryFailureReported ==
    call.fn = "validate" =>
        LET failing == SelectSeq(call.rules, LAMBDA r : RuleFails(call.value, r))
        IN /\ Len(call.out.errors) = Len(failing)
           /\ call.out.isValid = (failing = <<>>)
           /\ \A i \in 1..Len(failing) :
                 (failing[i].type = "custom"
                  /\ ApplyValidator(failing[i].customValidator, call.value).t = "string")
                 => call.out.errors[i]
                        = ApplyValidator(failing[i].customValidator, call.value).s

\* The value at the end of a path: each segment is a key of the mapping
\* reached so far; Undefined once a segment is no key of it, or what was
\* reached is no mapping.
RECURSIVE ValueAt(_, _)
ValueAt(obj, path) ==
    IF path = <<>> THEN obj
    ELSE IF obj.t = "object" /\ Head(path) \in DOMAIN obj.o
    THEN ValueAt(obj.o[Head(path)], Tail(path))
    ELSE Undefined

RECURSIVE Join(_)
Join(words) ==
    IF Len(words) = 1 THEN Head(words) ELSE Head(words) \o " " \o Join(Tail(words))

\* Math.ceil(a / b) for positive b.
Ceil(a, b) == (a + b - 1) \div b

\* C17: every line wrapText returns is at most maxWidth wide, and a text
\* wider than maxWidth gives at least ceil(textWidth / maxWidth) lines.
C17_WrappedLinesFit ==
    call.fn = "wrapText" =>
        LET textWidth == WidthOfTextAtSize(Join(call.words), call.fontSize)
        IN /\ \A i \in 1..Len(call.out) :
                 WidthOfTextAtSize(call.out[i], call.fontSize) <= call.maxWidth
           /\ textWidth > call.maxWidth =>
                 Len(call.out) >= Ceil(textWidth, call.maxWidth)

\* processData has run for the fields of the call.
Processed == pc \in {"fill", "save"} \/ (Returned /\ fatal \in {"none", "save"})

\* The value the Data Transformer produces for the field from the input.
TransformedInput(req, field) ==
    LET value == getNestedValue(req.data, field.name)
    IN IF field.type \in {"date", "number", "qrcode"} /\ Truthy(value)
       THEN transform(value, field.type)
       ELSE value

\* C18: the validation of a field decides on the transformed value: when the
\* value the Data Transformer produced for the field fails the field's rules,
\* the value kept for rendering is the field's default value.
C18_ValidatesTransformedValue ==
    Processed =>
        \A i \in 1..Len(fields) :
            (/\ fields[i].hasValidation
             /\ ~validate(TransformedInput(request, fields[i]),
                          fields[i].validation).isValid)
            => processedData[fields[i].id]
                  \in {fields[i].defaultValue,
                       transform(fields[i].defaultValue, fields[i].type)}

\* The field was rendered without an exception: its page is a page of the
\* document and no call of the PDF library threw.
Rendered(field) ==
    /\ \E k \in 1..Len(attempts) : attempts[k] = field.id
    /\ field.id \notin threw

\* What was drawn for the field shows the value `value`: a text field its
\* text, a checkbox the check mark exactly when the value is true, any other
\* field a drawing of its own.
Shows(field, value) ==
    CASE field.type \in {"text", "multiline-text"} ->
            \E i \in 1..Len(doc.ops) :
                /\ doc.ops[i].field = field.id
                /\ doc.ops[i].kind = "drawText"
                /\ doc.ops[i].text = String(value)
      [] field.type = "checkbox" ->
            Truthy(value) =
                (\E i \in 1..Len(doc.ops) :
                    /\ doc.ops[i].field = field.id
                    /\ doc.ops[i].kind = "drawText")
      [] OTHER -> \E i \in 1..Len(doc.ops) : doc.ops[i].field = field.id

\* C19: a field of a rendered type whose path resolves to no value in the
\* data and that has a default value is drawn with the default value.
C19_DefaultDrawn ==
    \A i \in 1..Len(fields) :
        (/\ Rendered(fields[i])
         /\ fields[i].type \in SupportedTypes
         /\ getNestedValue(request.data, fields[i].name) = Undefined
         /\ fields[i].defaultValue /= Undefined)
        => Shows(fields[i], fields[i].defaultValue)

\* The texts that are a formatting of the whole number v: its digits, with or
\* without thousands separators, with or without two decimals.
Formattings(v) ==
    {String(Num(v)), toFixed2(v), toLocaleString(Num(v)), transformNumber(v)}

\* C20: for a number field whose input is a number v, the text drawn is a
\* formatting of v.
C20_NumberDrawn ==
    \A i \in 1..Len(fields) :
        LET v == getNestedValue(request.data, fields[i].name) IN
        (/\ Rendered(fields[i])
         /\ fields[i].type = "number"
         /\ v.t = "number" /\ ~IsNaN(v))
        => \E k \in 1..Len(doc.ops) :
              /\ doc.ops[k].field = fields[i].id
              /\ doc.ops[k].kind = "drawText"
              /\ doc.ops[k].text \in Formattings(v.n)

\* C21: for a qrcode field whose input is a string s, every image drawn for
\* the field is the QR bitmap of s: s was encoded exactly once between the
\* input and the drawing.
C21_QREncodedOnce ==
    \A i \in 1..Len(fields) :
        LET s == getNestedValue(request.data, fields[i].name) IN
        (/\ Rendered(fields[i])
         /\ fields[i].type = "qrcode"
         /\ s.t = "string" /\ Truthy(s))
        => \A k \in 1..Len(doc.ops) :
              (doc.ops[k].field = fields[i].id /\ doc.ops[k].kind = "drawImage")
              => doc.ops[k].image = QRDataUrl(s.s)

\* The strings the regular expression of a pattern rule matches: those of a
\* RegExp object, and for the source text of the model the texts of the model
\* that new RegExp(source) matches.
Matched(ruleValue) ==
    CASE ruleValue.t = "regexp" -> ruleValue.accepts
      [] ruleValue = Str("^INV-[0-9]+$") -> {"INV-0", "INV-1"}
      [] OTHER -> {}

\* C22: for every pattern rule a field has from the Field Store, validate
\* reports an error for a string value the pattern does not match, and none
\* for a string it matches or for a value that is no string.
C22_PatternEnforced ==
    \A i \in 1..Len(fields) :
        \A k \in 1..Len(fields[i].validation) :
            LET rule == fields[i].validation[k]
                value == getNestedValue(request.data, fields[i].name)
                fails == value.t = "string" /\ value.s \notin Matched(rule.value)
            IN rule.type = "pattern"
               => (fails <=> validate(value, <<rule>>).errors /= <<>>)

\* The lines wrapText gives renderTextField for a multiline field.
WrappedLines(field) ==
    wrapText(Split(String(Or(Or(processedData[field.id], field.defaultValue), Str("")))),
             field.dimensions.width, field.fontSize)

\* The cursor of line k (k = 0, 1, ...), in tenths of a point.
Cursor(field, k) == Tenths(field.position.y) - k * LineHeight(field.fontSize)

\* The index of the line at which drawing stops: the first line whose cursor
\* is below the box, or the number of lines when there is none.
StopLine(field, lines) ==
    LET below == {k \in 0..(Len(lines) - 1) :
                     Cursor(field, k) < Tenths(field.position.y - field.dimensions.height)}
    IN IF below = {} THEN Len(lines)
       ELSE CHOOSE k \in below : \A j \in below : k <= j

\* C23: what is drawn for a multiline field is the prefix of its wrapped lines
\* before the first line whose cursor is below position.y - dimensions.height:
\* line k at y = position.y - k * fontSize * 1.2, nothing after it, and the
\* lines dropped leave neither an error nor a warning.
C23_MultilinePrefix ==
    \A i \in 1..Len(fields) :
        (Rendered(fields[i]) /\ fields[i].type = "multiline-text")
        => LET lines == WrappedLines(fields[i])
               drawn == EntriesOf(doc.ops, fields[i].id)
               stop == StopLine(fields[i], lines)
           IN /\ Len(drawn) = stop
              /\ \A k \in 0..(stop - 1) :
                    /\ drawn[k + 1].kind = "drawText"
                    /\ drawn[k + 1].text = lines[k + 1]
                    /\ drawn[k + 1].y = Cursor(fields[i], k)
              /\ EntriesOf(errors, fields[i].id) = <<>>
              /\ EntriesOf(warnings, fields[i].id) = <<>>

\* A multiline field was rendered whose text wraps into four lines of which
\* the box has room for two, and the call returned.
C23_Witness ==
    /\ Returned /\ result.success
    /\ \E i \in 1..Len(fields) :
          /\ Rendered(fields[i]) /\ fields[i].type = "multiline-text"
          /\ Len(WrappedLines(fields[i])) = 4
          /\ StopLine(fields[i], WrappedLines(fields[i])) = 2
          /\ Len(EntriesOf(doc.ops, fields[i].id)) = 2

\* C24: when a generatePDF call has returned, the font cache holds no font
\* that was embedded in the document of that call.
C24_FontCacheEndsWithDocument ==
    Returned =>
        \A key \in DOMAIN fontCache : fontCache[key].doc /= callNo

\* C25: in every successful result each field has at most one error entry,
\* 0 <= fieldsSkipped <= number of fields, fieldsProcessed >= 0,
\* fieldsProcessed + fieldsSkipped is the number of fields the Field Store
\* conversion returned, and fieldsSkipped is the number of entries of errors[]
\* that carry a field id.
C25_FieldAccounting ==
    (Returned /\ result.success) =>
        LET m == result.metadata
            errs == List(result.errors)
        IN /\ \A i \in 1..Len(fields) : Len(EntriesOf(errs, fields[i].id)) <= 1
           /\ 0 <= m.fieldsSkipped /\ m.fieldsSkipped <= Len(fields)
           /\ m.fieldsProcessed >= 0
           /\ m.fieldsProcessed + m.fieldsSkipped = Len(fields)
           /\ m.fieldsSkipped = Cardinality({k \in 1..Len(errs) : errs[k].field /= NoField})

\* A successful result over three fields of which one was skipped with an
\* error and two were processed.
C25_Witness ==
    /\ Returned /\ result.success
    /\ Len(fields) = 3
    /\ result.metadata.fieldsSkipped = 1
    /\ result.metadata.fieldsProcessed = 2
    /\ Len(List(result.errors)) = 1

\* new PDFGenerationError('PDF generation failed', 'GENERATION_FAILED', details)
PDFGenerationError(details) ==
    [name |-> "PDFGenerationError", code |-> "GENERATION_FAILED",
     details |-> details]

\* generateFromTemplate(templateId, data, options), also the module-level
\* generatePDF: `r` is what this.generatePDF({templateId, data, options})
\* returned.  It throws for a failure result and returns r.pdfBuffer otherwise.
generateFromTemplate(r) ==
    IF ~r.success
    THEN [threw |-> TRUE, value |-> PDFGenerationError(r.errors)]
    ELSE [threw |-> FALSE, value |-> r.pdfBuffer]

\* C26: generateFromTemplate throws a PDFGenerationError of code
\* GENERATION_FAILED exactly when the result of generatePDF has success=false,
\* and otherwise returns the buffer of the serialized document, whatever
\* options.outputFormat is.
C26_BufferOrThrow ==
    Returned =>
        LET out == generateFromTemplate(result)
        IN IF ~result.success
           THEN out.threw /\ out.value.code = "GENERATION_FAILED"
           ELSE ~out.threw /\ out.value = BufferFrom(Serialize(doc))

\* C27: for a template that has fields in the Field Store, generatePDF does
\* not return success=true with no error, no warning and fieldsProcessed=0.
C27_FieldListFailureReported ==
    (Returned /\ stored /= <<>>) =>
        ~(/\ result.success
          /\ List(result.errors) = <<>>
          /\ List(result.warnings) = <<>>
          /\ result.metadata.fieldsProcessed = 0)

\* The value is present in the data and falsy: 0, false or the empty string.
PresentFalsy(v) == v \in {Num(0), Bool(FALSE), Str("")}

\* C28: a text, number or date field whose input is present, falsy and not
\* rejected by its rules is not drawn as its default value nor as the current
\* date.
C28_FalsyInputKept ==
    \A i \in 1..Len(fields) :
        LET v == getNestedValue(request.data, fields[i].name) IN
        (/\ Rendered(fields[i])
         /\ fields[i].type \in {"text", "multiline-text", "number", "date"}
         /\ PresentFalsy(v)
         /\ ~FailsValidation(request, fields[i]))
        => \A k \in 1..Len(doc.ops) :
              (doc.ops[k].field = fields[i].id /\ doc.ops[k].kind = "drawText")
              => /\ doc.ops[k].text /= toLocaleDateString(Today)
                 /\ Truthy(fields[i].defaultValue)
                    => doc.ops[k].text /= String(fields[i].defaultValue)

\* field.name as the store spells it: the segments joined by dots.
RECURSIVE Dotted(_)
Dotted(path) ==
    IF Len(path) = 1 THEN path[1] ELSE path[1] \o "." \o Dotted(Tail(path))

\* Object.keys(data): the own keys of a mapping, the indices of a string
\* (a TypeError for null and undefined, which the caller tests first).
ObjectKeys(data) ==
    CASE data.t = "object" -> DOMAIN data.o
      [] data.t = "string" -> {Digits(k) : k \in 0..(Len(data.s) - 1)}
      [] OTHER -> {}

\* The errors the loop of validateTemplateData pushes for one field.
TemplateDataErrors(data, field) ==
    LET value == getNestedValue(data, field.name)
        missing == IF field.required /\ value \in {Null, Undefined, Str("")}
                   THEN <<"Required field '" \o Dotted(field.name) \o "' is missing">>
                   ELSE <<>>
        found == IF field.hasValidation /\ value \notin {Null, Undefined}
                 THEN validate(value, field.validation).errors
                 ELSE <<>>
    IN missing \o [k \in 1..Len(found) |-> Dotted(field.name) \o ": " \o found[k]]

RECURSIVE AllTemplateDataErrors(_, _)
AllTemplateDataErrors(data, flds) ==
    IF flds = <<>> THEN <<>>
    ELSE TemplateDataErrors(data, Head(flds)) \o AllTemplateDataErrors(data, Tail(flds))

\* validateTemplateData(templateId, data): `flds` is what getTemplateFields
\* returned for the template.  `unused` are the keys of the warning "Unused
\* data fields: ..."; an exception becomes the error "Template validation
\* failed: ...".
validateTemplateData(data, flds) ==
    IF data.t \in {"null", "undefined"}
    THEN [isValid |-> FALSE,
          errors |-> <<"Template validation failed: Cannot convert undefined or null to object">>,
          unused |-> {}]
    ELSE LET errs == AllTemplateDataErrors(data, flds)
             fieldNames == {Dotted(flds[i].name) : i \in 1..Len(flds)}
         IN [isValid |-> errs = <<>>, errors |-> errs,
             unused |-> {key \in ObjectKeys(data) : key \notin fieldNames}]

\* C29: when validateTemplateData finds the data valid, no field of the
\* generation on the same template and data fails its validation rules (so
\* none is replaced by its default), and no key of the data that is the first
\* segment of a field's path is reported as unused.
C29_ValidationAgreesWithGeneration ==
    (Processed /\ request.data.t = "object") =>
        LET report == validateTemplateData(request.data, fields)
        IN /\ report.isValid
              => \A i \in 1..Len(fields) : ~FailsValidation(request, fields[i])
           /\ \A i \in 1..Len(fields) : fields[i].name[1] \notin report.unused

\* The options of the call ask for a metadata setter or for a watermark.
OptionsWanted ==
    LET options == Or(request.options, Obj(<<>>))
        meta == Prop(options, "metadata")
    IN \/ Truthy(Prop(options, "watermark"))
       \/ \E k \in 1..Len(MetadataKeys) : Truthy(Prop(meta, MetadataKeys[k]))

\* applyPDFOptions has run and failed: the options asked for document-level
\* operations and the document has none.
OptionFailed ==
    /\ pc = "save" \/ (Returned /\ doc /= NoDoc)
    /\ OptionsWanted
    /\ \A k \in 1..Len(doc.ops) : doc.ops[k].field /= NoField

\* C30: after a failure of the document-level options the call is never ended
\* by that failure; unless save itself fails the serialized document is
\* returned with success=true, and the errors and warnings of the result are
\* those of the field loop: one error per field that threw, warnings of
\* fields only, no entry without a field.
C30_OptionFailureNotFatal ==
    (OptionFailed /\ Returned) =>
        /\ fatal \in {"none", "save"}
        /\ fatal = "none" =>
              /\ result.success
              /\ result[SelectedKey(OutputFormat(request))]
                    = Representation(SelectedKey(OutputFormat(request)), Serialize(doc))
              /\ List(result.errors) = errors
              /\ List(result.warnings) = warnings
              /\ Len(errors) = Cardinality(threw)
              /\ \A k \in 1..Len(errors) : errors[k].field \in threw
              /\ \A k \in 1..Len(warnings) :
                    warnings[k].field \in {fields[i].id : i \in Unsupported(fields)}
              /\ Len(warnings) = Cardinality(Unsupported(fields))

\* A call whose watermark or metadata failed returned a successful result that
\* carries an error of the field loop.
C30_Witness ==
    /\ OptionFailed /\ Returned
    /\ result.success
    /\ errors /= <<>>

====
